---------------------------- MODULE Spec2Model ----------------------------
(***************************************************************************)
(* A model of mcp-ox: the JSON-RPC envelope layer (src/src/protocol.rs),   *)
(* the prompt, its content builders and their decoding                     *)
(* (src/src/prompt.rs), and the resource builder, Resource::scheme and the *)
(* decoding of resource payloads (src/src/resource.rs).                    *)
(*                                                                         *)
(* Rust values are modelled as follows.                                    *)
(*   String          a TLA+ string                                         *)
(*   Option<T>       None, or Some(v)                                      *)
(*   Result<T, E>    Ok(v), or Err(e)                                      *)
(*   struct          a record with the struct's field names                *)
(*   enum            a record with a tag field naming the variant          *)
(* A builder is a value that every setter consumes and returns; a setter   *)
(* that returns Err has consumed the builder, which is then gone.          *)
(***************************************************************************)
EXTENDS Integers, Sequences, FiniteSets, TLC

VARIABLES
    icb,        \* Option<ImageContentBuilder>: the image builder in hand
    image,      \* Option<ImageContent>: what ImageContent build() returned
    pmb,        \* Option<PromptMessageBuilder>: the message builder in hand
    message,    \* Option<PromptMessage>: what build() / new_image returned
    op,         \* the last operation called on the prompt types
    args,       \* the latest argument the caller supplied for each parameter
    result,     \* Result of the last operation: Ok(<<>>) or Err(PromptError)
    conv,       \* the last conversions ProtocolError -> ErrorData, oldest first
    sent,       \* Option: the typed value last serialized
    wire,       \* Option: the JSON document last produced or received
    received,   \* Option<Result<JsonRpcMessage, _>>: the decoding of wire
    rb,         \* Option<ResourceBuilder>: the resource builder in hand
    resource,   \* Option<Resource>: what ResourceBuilder build() returned
    rcalls,     \* the setters called on rb so far, each with its last argument
    schemed,    \* Option<Result<String, ResourceError>>: what scheme() returned
    payload,    \* Option: the JSON payload received and the type it is for
    decoded,    \* Option<Result<_, _>>: the decoding of payload
    pb,         \* Option<PromptBuilder>: the prompt builder in hand
    prompt,     \* Option<Prompt>: what PromptBuilder build() returned
    pcalls      \* the calls made on pb so far, oldest first

imageVars == <<icb, image, pmb, message, op, args, result>>

errorVars == <<conv>>

wireVars == <<sent, wire, received>>

resourceVars == <<rb, resource, rcalls, schemed>>

decodeVars == <<payload, decoded>>

promptVars == <<pb, prompt, pcalls>>

vars == <<imageVars, errorVars, wireVars, resourceVars, decodeVars, promptVars>>

----------------------------------------------------------------------------
(* Option and Result *)

None == [some |-> FALSE]

Some(v) == [some |-> TRUE, v |-> v]

Ok(v) == [ok |-> TRUE, v |-> v]

Err(e) == [ok |-> FALSE, e |-> e]

Unit == <<>>

----------------------------------------------------------------------------
(* The state before any operation: nothing built, converted or sent. *)

\* No argument supplied yet to the prompt operations.
NoArgs == [data |-> None, mime_type |-> None, role |-> None, content |-> None]

\* No setter of the resource builder called yet.
NoCalls == [uri |-> None, mime_type |-> None, name |-> None, description |-> None]

Init ==
    /\ icb = None
    /\ image = None
    /\ pmb = None
    /\ message = None
    /\ op = "none"
    /\ args = NoArgs
    /\ result = Ok(Unit)
    /\ conv = <<>>
    /\ sent = None
    /\ wire = None
    /\ received = None
    /\ rb = None
    /\ resource = None
    /\ rcalls = NoCalls
    /\ schemed = None
    /\ payload = None
    /\ decoded = None
    /\ pb = None
    /\ prompt = None
    /\ pcalls = <<>>

----------------------------------------------------------------------------
(* Strings *)

\* str::starts_with
StartsWith(s, prefix) ==
    /\ Len(s) >= Len(prefix)
    /\ SubSeq(s, 1, Len(prefix)) = prefix

CharAt(s, i) == SubSeq(s, i, i)

\* All strings over the characters cs of length exactly n.
RECURSIVE StringsOfLen(_, _)
StringsOfLen(cs, n) ==
    IF n = 0 THEN {""}
    ELSE {s \o c : s \in StringsOfLen(cs, n - 1), c \in cs}

StringsUpTo(cs, n) == UNION {StringsOfLen(cs, k) : k \in 0..n}

----------------------------------------------------------------------------
(* base64::prelude::BASE64_STANDARD: the standard alphabet, padding written *)
(* on encode and required (canonical) on decode, non-zero trailing bits    *)
(* rejected.                                                                *)

B64Alphabet ==
    "ABCDEFGHIJKLMNOPQRSTUVWXYZabcdefghijklmnopqrstuvwxyz0123456789+/"

B64Symbols == {CharAt(B64Alphabet, i) : i \in 1..Len(B64Alphabet)}

\* The decode table: each symbol's 6-bit value.
B64Table ==
    [c \in B64Symbols |->
        (CHOOSE i \in 1..Len(B64Alphabet) : CharAt(B64Alphabet, i) = c) - 1]

IsB64Symbol(c) == c \in B64Symbols

B64Value(c) == B64Table[c]

B64Symbol(v) == CharAt(B64Alphabet, v + 1)

\* The number of '=' that end d, counted up to 2.
B64PadLen(d) ==
    LET n == Len(d) IN
    IF n >= 2 /\ CharAt(d, n) = "=" /\ CharAt(d, n - 1) = "=" THEN 2
    ELSE IF n >= 1 /\ CharAt(d, n) = "=" THEN 1
    ELSE 0

\* The bytes of the symbols s (no padding; Len(s) % 4 is 0, 2 or 3).
RECURSIVE B64Bytes(_)
B64Bytes(s) ==
    LET v(i) == B64Value(CharAt(s, i))
        b1 == v(1) * 4 + (v(2) \div 16)
        b2 == (v(2) % 16) * 16 + (v(3) \div 4)
        b3 == (v(3) % 4) * 64 + v(4)
    IN  IF Len(s) = 0 THEN <<>>
        ELSE IF Len(s) = 2 THEN <<b1>>
        ELSE IF Len(s) = 3 THEN <<b1, b2>>
        ELSE <<b1, b2, b3>> \o B64Bytes(SubSeq(s, 5, Len(s)))

\* Engine::decode: Ok(bytes) or Err(DecodeError).
B64Decode(d) ==
    LET n    == Len(d)
        pads == B64PadLen(d)
        body == SubSeq(d, 1, n - pads)
        m    == Len(body)
        last == B64Value(CharAt(body, m))
    IN  IF \E i \in 1..m : ~IsB64Symbol(CharAt(body, i))
            THEN Err("InvalidByte")
        ELSE IF n % 4 # 0
            THEN Err(IF m % 4 = 1 THEN "InvalidLength" ELSE "InvalidPadding")
        ELSE IF (pads = 2 /\ last % 16 # 0) \/ (pads = 1 /\ last % 4 # 0)
            THEN Err("InvalidLastSymbol")
        ELSE Ok(B64Bytes(body))

\* Engine::encode, the inverse the round trip of a stored image is stated with.
RECURSIVE B64Encode(_)
B64Encode(bytes) ==
    LET n  == Len(bytes)
        b1 == bytes[1]
        b2 == IF n >= 2 THEN bytes[2] ELSE 0
        b3 == IF n >= 3 THEN bytes[3] ELSE 0
        s1 == B64Symbol(b1 \div 4)
        s2 == B64Symbol((b1 % 4) * 16 + (b2 \div 16))
        s3 == B64Symbol((b2 % 16) * 4 + (b3 \div 64))
        s4 == B64Symbol(b3 % 64)
    IN  IF n = 0 THEN ""
        ELSE IF n = 1 THEN s1 \o s2 \o "=="
        ELSE IF n = 2 THEN s1 \o s2 \o s3 \o "="
        ELSE s1 \o s2 \o s3 \o s4 \o B64Encode(SubSeq(bytes, 4, n))


----------------------------------------------------------------------------
(* Inputs of the prompt operations *)

\* The longest data string enumerated in full.
MaxDataLen == 4

\* A symbol of value 0, a symbol of value 17 (non-zero trailing bits) and
\* the padding character.
DataChars == {"A", "R", "="}

\* More data: several quads, padding in the last quad, padding missing,
\* padding inside, and characters outside the alphabet (a space, '!', the
\* URL-safe '-').
DataSamples ==
    {"QUJD", "QUJDRA==", "aGVsbG8=", "QUJDRA=", "QUJDRA", "QU==RA==",
     "QUJD RA==", "a-k=", "!", "AAA!", "A!A="}

DataInputs == StringsUpTo(DataChars, MaxDataLen) \cup DataSamples

MimeInputs ==
    {"image/png", "image/jpeg", "image/", "imagex/png", "text/plain",
     "image", "IMAGE/png", ""}

PromptMessageRole == {"User", "Assistant"}

----------------------------------------------------------------------------
(* src/src/prompt.rs *)

\* PromptError::InvalidParameters(msg)
InvalidParameters(msg) == [kind |-> "InvalidParameters", msg |-> msg]

\* struct TextContent
TextContent(text) == [text |-> text]

\* struct ImageContent; as PromptMessageContent::Image it carries the tag.
ImageContent(data, mime_type) == [data |-> data, mime_type |-> mime_type]

\* PromptMessageContent::Text / Image / Resource
ContentText(text) == [type |-> "text", text |-> TextContent(text).text]

ContentImage(i) == [type |-> "image", data |-> i.data, mime_type |-> i.mime_type]

ContentResource(uri, mime_type, text) ==
    [type |-> "resource",
     resource |-> [resource |-> [uri |-> uri, mime_type |-> mime_type, text |-> text]]]

\* impl Default for PromptMessageContent
PromptMessageContent_default == ContentText("")

\* ImageContent::builder(): both members are #[builder(field)], so they
\* start at String::default() and build() is callable at once.
ImageContent_builder == [data |-> "", mime_type |-> ""]

\* ImageContentBuilder::data
ImageContentBuilder_data(self, data) ==
    IF ~B64Decode(data).ok
        THEN Err(InvalidParameters("Image data must be valid base64"))
        ELSE Ok([self EXCEPT !.data = data])

\* ImageContentBuilder::mime_type
ImageContentBuilder_mime_type(self, mime_type) ==
    IF ~StartsWith(mime_type, "image/")
        THEN Err(InvalidParameters("MIME type must be a valid image type (e.g. image/jpeg)"))
        ELSE Ok([self EXCEPT !.mime_type = mime_type])

\* ImageContentBuilder::build (generated): the fields as they stand.
ImageContentBuilder_build(self) == ImageContent(self.data, self.mime_type)

\* PromptMessage::builder(): content is #[builder(field)] and starts at
\* PromptMessageContent::default(); role is a required member.
PromptMessage_builder == [content |-> PromptMessageContent_default, role |-> None]

\* PromptMessageBuilder::content with the MIME check left out.
PromptMessageBuilder_content_NoMimeCheck(self, content) ==
    IF content.type = "image" /\ ~B64Decode(content.data).ok
        THEN Err(InvalidParameters("Image data must be valid base64"))
    ELSE Ok([self EXCEPT !.content = content])

\* PromptMessageBuilder::content with the MIME prefix looked at first.
PromptMessageBuilder_content_MimeFirst(self, content) ==
    IF content.type = "image" /\ ~StartsWith(content.mime_type, "image/")
        THEN Err(InvalidParameters("MIME type must be a valid image type (e.g. image/jpeg)"))
    ELSE IF content.type = "image" /\ ~B64Decode(content.data).ok
        THEN Err(InvalidParameters("Image data must be valid base64"))
    ELSE Ok([self EXCEPT !.content = content])

\* PromptMessageBuilder::content
PromptMessageBuilder_content(self, content) ==
    IF content.type = "image" /\ ~B64Decode(content.data).ok
        THEN Err(InvalidParameters("Image data must be valid base64"))
    ELSE IF content.type = "image" /\ ~StartsWith(content.mime_type, "image/")
        THEN Err(InvalidParameters("MIME type must be a valid image type (e.g. image/jpeg)"))
    ELSE Ok([self EXCEPT !.content = content])

\* PromptMessageBuilder::role (generated setter of the required member)
PromptMessageBuilder_role(self, role) == [self EXCEPT !.role = Some(role)]

\* PromptMessageBuilder::build (generated)
PromptMessageBuilder_build(self) == [content |-> self.content, role |-> self.role.v]

\* PromptMessage::new_image with the two fields of the image exchanged.
PromptMessage_new_image_Swapped(role, data, mime_type) ==
    IF ~B64Decode(data).ok
        THEN Err(InvalidParameters("Image data must be valid base64"))
    ELSE IF ~StartsWith(mime_type, "image/")
        THEN Err(InvalidParameters("MIME type must be a valid image type (e.g. image/jpeg)"))
    ELSE Ok([role |-> role, content |-> ContentImage(ImageContent(mime_type, data))])

\* PromptMessage::new_image
PromptMessage_new_image(role, data, mime_type) ==
    IF ~B64Decode(data).ok
        THEN Err(InvalidParameters("Image data must be valid base64"))
    ELSE IF ~StartsWith(mime_type, "image/")
        THEN Err(InvalidParameters("MIME type must be a valid image type (e.g. image/jpeg)"))
    ELSE Ok([role |-> role, content |-> ContentImage(ImageContent(data, mime_type))])

\* PromptMessage::new_resource
PromptMessage_new_resource(role, uri, mime_type, text) ==
    [role |-> role, content |-> ContentResource(uri, mime_type, text)]

\* The builder path to an image message:
\* PromptMessage::builder().content(Image{data, mime_type})?.role(role).build()
PromptMessage_builder_image(role, data, mime_type) ==
    LET c == PromptMessageBuilder_content(PromptMessage_builder,
                                          ContentImage(ImageContent(data, mime_type)))
    IN  IF c.ok
            THEN Ok(PromptMessageBuilder_build(PromptMessageBuilder_role(c.v, role)))
            ELSE c

----------------------------------------------------------------------------
(* The prompt operations as steps.  One construction is followed at a      *)
(* time: the types are plain values and no operation reads another         *)
(* object's state.                                                          *)

\* The contents a caller can hand to PromptMessageBuilder::content: the
\* fields of ImageContent are public, so any pair of strings can arrive.
ContentInputs ==
    {ContentText(""), ContentText("hi"),
     ContentResource("str:///content", Some("text/plain"), "Hello world")}
    \cup {ContentImage(ImageContent(d, m)) : d \in DataInputs, m \in MimeInputs}

\* No construction is under way and none has been looked at yet.
PromptIdle == op = "none"

\* A construction has ended: in an object, or in an error.
PromptEnded == op # "none" /\ icb = None /\ pmb = None

ImageContentBuilderNew ==
    /\ UNCHANGED <<errorVars, wireVars, resourceVars, decodeVars, promptVars>>
    /\ PromptIdle
    /\ icb' = Some(ImageContent_builder)
    /\ image' = None
    /\ message' = None
    /\ op' = "ImageContent::builder"
    /\ args' = NoArgs
    /\ result' = Ok(Unit)
    /\ UNCHANGED pmb

ImageContentBuilderData ==
    /\ UNCHANGED <<errorVars, wireVars, resourceVars, decodeVars, promptVars>>
    /\ icb.some
    /\ \E d \in DataInputs :
        LET r == ImageContentBuilder_data(icb.v, d) IN
        /\ icb' = IF r.ok THEN Some(r.v) ELSE None
        /\ result' = IF r.ok THEN Ok(Unit) ELSE r
        /\ args' = [args EXCEPT !.data = Some(d)]
    /\ op' = "ImageContentBuilder::data"
    /\ UNCHANGED <<image, pmb, message>>

ImageContentBuilderMimeType ==
    /\ UNCHANGED <<errorVars, wireVars, resourceVars, decodeVars, promptVars>>
    /\ icb.some
    /\ \E m \in MimeInputs :
        LET r == ImageContentBuilder_mime_type(icb.v, m) IN
        /\ icb' = IF r.ok THEN Some(r.v) ELSE None
        /\ result' = IF r.ok THEN Ok(Unit) ELSE r
        /\ args' = [args EXCEPT !.mime_type = Some(m)]
    /\ op' = "ImageContentBuilder::mime_type"
    /\ UNCHANGED <<image, pmb, message>>

ImageContentBuilderBuild ==
    /\ UNCHANGED <<errorVars, wireVars, resourceVars, decodeVars, promptVars>>
    /\ icb.some
    /\ image' = Some(ImageContentBuilder_build(icb.v))
    /\ icb' = None
    /\ op' = "ImageContentBuilder::build"
    /\ result' = Ok(Unit)
    /\ UNCHANGED <<pmb, message, args>>

PromptMessageBuilderNew ==
    /\ UNCHANGED <<errorVars, wireVars, resourceVars, decodeVars, promptVars>>
    /\ PromptIdle
    /\ pmb' = Some(PromptMessage_builder)
    /\ image' = None
    /\ message' = None
    /\ op' = "PromptMessage::builder"
    /\ args' = NoArgs
    /\ result' = Ok(Unit)
    /\ UNCHANGED icb

PromptMessageBuilderContent ==
    /\ UNCHANGED <<errorVars, wireVars, resourceVars, decodeVars, promptVars>>
    /\ pmb.some
    /\ \E c \in ContentInputs :
        LET r == PromptMessageBuilder_content(pmb.v, c) IN
        /\ pmb' = IF r.ok THEN Some(r.v) ELSE None
        /\ result' = IF r.ok THEN Ok(Unit) ELSE r
        /\ args' = [args EXCEPT !.content = Some(c)]
    /\ op' = "PromptMessageBuilder::content"
    /\ UNCHANGED <<icb, image, message>>

\* The typestate of the generated builder lets role be set once.
PromptMessageBuilderRole ==
    /\ UNCHANGED <<errorVars, wireVars, resourceVars, decodeVars, promptVars>>
    /\ pmb.some
    /\ ~pmb.v.role.some
    /\ \E r \in PromptMessageRole :
        /\ pmb' = Some(PromptMessageBuilder_role(pmb.v, r))
        /\ args' = [args EXCEPT !.role = Some(r)]
    /\ op' = "PromptMessageBuilder::role"
    /\ result' = Ok(Unit)
    /\ UNCHANGED <<icb, image, message>>

\* build() exists only once the required member role is set.
PromptMessageBuilderBuild ==
    /\ UNCHANGED <<errorVars, wireVars, resourceVars, decodeVars, promptVars>>
    /\ pmb.some
    /\ pmb.v.role.some
    /\ message' = Some(PromptMessageBuilder_build(pmb.v))
    /\ pmb' = None
    /\ op' = "PromptMessageBuilder::build"
    /\ result' = Ok(Unit)
    /\ UNCHANGED <<icb, image, args>>

PromptMessageNewImage ==
    /\ UNCHANGED <<errorVars, wireVars, resourceVars, decodeVars, promptVars>>
    /\ PromptIdle
    /\ \E r \in PromptMessageRole, d \in DataInputs, m \in MimeInputs :
        LET res == PromptMessage_new_image(r, d, m) IN
        /\ message' = IF res.ok THEN Some(res.v) ELSE None
        /\ result' = IF res.ok THEN Ok(Unit) ELSE res
        /\ args' = [NoArgs EXCEPT !.role = Some(r), !.data = Some(d),
                                  !.mime_type = Some(m)]
    /\ image' = None
    /\ op' = "PromptMessage::new_image"
    /\ UNCHANGED <<icb, pmb>>

PromptMessageNewResource ==
    /\ UNCHANGED <<errorVars, wireVars, resourceVars, decodeVars, promptVars>>
    /\ PromptIdle
    /\ \E r \in PromptMessageRole, mt \in {None, Some("text/plain")} :
        /\ message' = Some(PromptMessage_new_resource(r, "str:///content", mt, "Hello world"))
        /\ args' = [NoArgs EXCEPT !.role = Some(r)]
    /\ image' = None
    /\ op' = "PromptMessage::new_resource"
    /\ result' = Ok(Unit)
    /\ UNCHANGED <<icb, pmb>>

\* The caller drops what the last construction left and starts afresh.
PromptDiscard ==
    /\ UNCHANGED <<errorVars, wireVars, resourceVars, decodeVars, promptVars>>
    /\ PromptEnded
    /\ icb' = None
    /\ image' = None
    /\ pmb' = None
    /\ message' = None
    /\ op' = "none"
    /\ args' = NoArgs
    /\ result' = Ok(Unit)

ImageNext ==
    \/ ImageContentBuilderNew
    \/ ImageContentBuilderData
    \/ ImageContentBuilderMimeType
    \/ ImageContentBuilderBuild
    \/ PromptMessageBuilderNew
    \/ PromptMessageBuilderContent
    \/ PromptMessageBuilderRole
    \/ PromptMessageBuilderBuild
    \/ PromptMessageNewImage
    \/ PromptMessageNewResource
    \/ PromptDiscard

SpecImage == Init /\ [][ImageNext]_vars

----------------------------------------------------------------------------
(* Claims about image construction *)

\* An image satisfies the invariant of ImageContent.
ImageValid(i) ==
    /\ B64Decode(i.data).ok
    /\ StartsWith(i.mime_type, "image/")

\* The last operation failed with InvalidParameters and left no builder
\* and no object behind.
RejectedInvalidParameters ==
    /\ ~result.ok
    /\ result.e.kind = "InvalidParameters"
    /\ icb = None
    /\ pmb = None
    /\ image = None
    /\ message = None

\* C1: every ImageContent that ImageContent::builder() builds, after any
\* sequence of successful data / mime_type calls (the empty one too), and
\* every PromptMessage with Image content from new_image or from the message
\* builder, has data that decodes as standard base64 and a mimeType that
\* begins with "image/".
C1_ImageInvariant ==
    /\ image.some => ImageValid(image.v)
    /\ (message.some /\ message.v.content.type = "image")
            => ImageValid(message.v.content)

\* C2: invalid image input is rejected with InvalidParameters on every path:
\* data(d) for d that is not base64, mime_type(m) for m without the prefix
\* "image/", and content(Image{d, m}) and new_image(_, d, m) when either is
\* invalid; the call yields no object.
C2_InvalidRejected ==
    /\ (op = "ImageContentBuilder::data" /\ ~B64Decode(args.data.v).ok)
            => RejectedInvalidParameters
    /\ (op = "ImageContentBuilder::mime_type"
        /\ ~StartsWith(args.mime_type.v, "image/"))
            => RejectedInvalidParameters
    /\ (op = "PromptMessageBuilder::content"
        /\ args.content.v.type = "image"
        /\ ~ImageValid(args.content.v))
            => RejectedInvalidParameters
    /\ (op = "PromptMessage::new_image"
        /\ ~ImageValid(ImageContent(args.data.v, args.mime_type.v)))
            => RejectedInvalidParameters

\* The message builder has just refused an image whose data is valid base64
\* and whose MIME type lacks the prefix.
C2_Witness ==
    /\ op = "PromptMessageBuilder::content"
    /\ args.content.v.type = "image"
    /\ args.content.v.data = "QUJDRA=="
    /\ args.content.v.mime_type = "imagex/png"
    /\ RejectedInvalidParameters

\* The stored data is the string d, and decoding it gives the bytes d encodes.
StoresData(stored, d) ==
    /\ stored = d
    /\ B64Decode(stored).ok
    /\ B64Encode(B64Decode(stored).v) = d

\* C3: for valid base64 d and m with prefix "image/", new_image(r, d, m)
\* succeeds and data(d), mime_type(m) succeed, and the object built stores
\* data = d and mimeType = m unchanged, so that decoding its data gives the
\* original bytes.
C3_ValidStoredUnchanged ==
    /\ (op = "PromptMessage::new_image"
        /\ ImageValid(ImageContent(args.data.v, args.mime_type.v)))
            => /\ result.ok
               /\ message.some
               /\ message.v.role = args.role.v
               /\ message.v.content.type = "image"
               /\ StoresData(message.v.content.data, args.data.v)
               /\ message.v.content.mime_type = args.mime_type.v
    /\ (op = "ImageContentBuilder::data" /\ B64Decode(args.data.v).ok)
            => result.ok /\ icb.some /\ StoresData(icb.v.data, args.data.v)
    /\ (op = "ImageContentBuilder::mime_type"
        /\ StartsWith(args.mime_type.v, "image/"))
            => result.ok /\ icb.some /\ icb.v.mime_type = args.mime_type.v
    /\ (op = "ImageContentBuilder::build" /\ args.data.some /\ args.mime_type.some)
            => /\ image.some
               /\ StoresData(image.v.data, args.data.v)
               /\ image.v.mime_type = args.mime_type.v

\* new_image has built a message from two quads of data, the second padded.
C3_Witness ==
    /\ op = "PromptMessage::new_image"
    /\ args.data.v = "QUJDRA=="
    /\ args.mime_type.v = "image/png"
    /\ message.some
    /\ B64Decode(message.v.content.data).v = <<65, 66, 67, 68>>

----------------------------------------------------------------------------
(* JSON documents (serde_json::Value) *)

JNull == [t |-> "null"]

JBool(b) == [t |-> "bool", b |-> b]

JNum(n) == [t |-> "num", n |-> n]

JStr(str) == [t |-> "str", s |-> str]

JArr(seq) == [t |-> "arr", a |-> seq]

\* An object: a function from its keys to their values.
JObj(f) == [t |-> "obj", o |-> f]

\* The function that a set of <<key, value>> pairs with distinct keys lists.
Fields(pairs) ==
    [k \in {q[1] : q \in pairs} |-> (CHOOSE q \in pairs : q[1] = k)[2]]

\* A field that is always written.
Field(key, value) == {<<key, value>>}

\* #[serde(skip_serializing_if = "Option::is_none")] on an Option<Value>
\* field, and on one whose value v is serialized to j.
SkipIfNone(key, opt) == IF opt.some THEN {<<key, opt.v>>} ELSE {}

\* An Option field with no skip attribute: None is written as null.
NullIfNone(key, opt, j) == {<<key, IF opt.some THEN j ELSE JNull>>}

HasKey(j, key) == j.t = "obj" /\ key \in DOMAIN j.o

\* Deserializing a String, i32 or Option<Value> member of a struct from
\* the object j.  A missing key or a null gives None for an Option.
IsStringField(j, key) == HasKey(j, key) /\ j.o[key].t = "str"

\* The numbers of the documents modelled are integers within i32.
IsI32Field(j, key) == HasKey(j, key) /\ j.o[key].t = "num"

OptionValueField(j, key) ==
    IF HasKey(j, key) /\ j.o[key] # JNull THEN Some(j.o[key]) ELSE None

----------------------------------------------------------------------------
(* src/src/protocol.rs: the error taxonomy *)

PARSE_ERROR == -32700

INVALID_REQUEST == -32600

METHOD_NOT_FOUND == -32601

INVALID_PARAMS == -32602

INTERNAL_ERROR == -32603

\* enum ProtocolError: the variant and the String it carries.
ProtocolErrorVariants ==
    {"TransportError", "ParseError", "ProtocolError", "MethodNotImplemented",
     "InvalidParams", "InternalError"}

ProtocolError(variant, msg) == [variant |-> variant, msg |-> msg]

\* struct ErrorData
ErrorData(code, msg, data) == [code |-> code, message |-> msg, data |-> data]

\* From<ProtocolError> for ErrorData with one arm's code copied from the
\* arm above it.
ErrorData_from_CopiedArm(error) ==
    CASE error.variant = "TransportError" ->
            ErrorData(INTERNAL_ERROR, error.msg, None)
      [] error.variant = "ParseError" ->
            ErrorData(PARSE_ERROR, error.msg, None)
      [] error.variant = "ProtocolError" ->
            ErrorData(INVALID_REQUEST, error.msg, None)
      [] error.variant = "MethodNotImplemented" ->
            ErrorData(INVALID_REQUEST, error.msg, None)
      [] error.variant = "InvalidParams" ->
            ErrorData(INVALID_PARAMS, error.msg, None)
      [] error.variant = "InternalError" ->
            ErrorData(INTERNAL_ERROR, error.msg, None)

\* From<ProtocolError> for ErrorData with InternalError given the code of
\* the arm above it.
ErrorData_from_InternalAsParams(error) ==
    CASE error.variant = "TransportError" ->
            ErrorData(INTERNAL_ERROR, error.msg, None)
      [] error.variant = "ParseError" ->
            ErrorData(PARSE_ERROR, error.msg, None)
      [] error.variant = "ProtocolError" ->
            ErrorData(INVALID_REQUEST, error.msg, None)
      [] error.variant = "MethodNotImplemented" ->
            ErrorData(METHOD_NOT_FOUND, error.msg, None)
      [] error.variant = "InvalidParams" ->
            ErrorData(INVALID_PARAMS, error.msg, None)
      [] error.variant = "InternalError" ->
            ErrorData(INVALID_PARAMS, error.msg, None)

\* impl From<ProtocolError> for ErrorData
ErrorData_from(error) ==
    CASE error.variant = "TransportError" ->
            ErrorData(INTERNAL_ERROR, error.msg, None)
      [] error.variant = "ParseError" ->
            ErrorData(PARSE_ERROR, error.msg, None)
      [] error.variant = "ProtocolError" ->
            ErrorData(INVALID_REQUEST, error.msg, None)
      [] error.variant = "MethodNotImplemented" ->
            ErrorData(METHOD_NOT_FOUND, error.msg, None)
      [] error.variant = "InvalidParams" ->
            ErrorData(INVALID_PARAMS, error.msg, None)
      [] error.variant = "InternalError" ->
            ErrorData(INTERNAL_ERROR, error.msg, None)

\* The message texts converted.
MessageTexts == {"foo", "", "Method not implemented: foo"}

\* How many conversions are kept side by side.
MaxConv == 2

\* error.into(): conv keeps the last MaxConv conversions.
ConvertError ==
    /\ \E variant \in ProtocolErrorVariants, msg \in MessageTexts :
        LET error == ProtocolError(variant, msg)
            entry == [error |-> error, data |-> ErrorData_from(error)]
        IN  conv' = IF Len(conv) < MaxConv
                        THEN Append(conv, entry)
                        ELSE Append(Tail(conv), entry)
    /\ UNCHANGED <<imageVars, wireVars, resourceVars, decodeVars, promptVars>>

ErrorNext == ConvertError

SpecError == Init /\ [][ErrorNext]_vars

----------------------------------------------------------------------------
(* Claims about the error taxonomy *)

\* C4: the conversion ProtocolError -> ErrorData always gives an ErrorData:
\* TransportError and InternalError give code -32603, ParseError -32700,
\* ProtocolError -32600, MethodNotImplemented -32601, InvalidParams -32602;
\* the message is the error's text and data is None.
C4_ConversionTable ==
    \A i \in 1..Len(conv) :
        LET e == conv[i].error
            d == conv[i].data
        IN  /\ DOMAIN d = {"code", "message", "data"}
            /\ e.variant \in {"TransportError", "InternalError"} => d.code = -32603
            /\ e.variant = "ParseError" => d.code = -32700
            /\ e.variant = "ProtocolError" => d.code = -32600
            /\ e.variant = "MethodNotImplemented" => d.code = -32601
            /\ e.variant = "InvalidParams" => d.code = -32602
            /\ d.message = e.msg
            /\ d.data = None

\* MethodNotImplemented("foo") has been converted.
C4_Witness ==
    \E i \in 1..Len(conv) :
        /\ conv[i].error = ProtocolError("MethodNotImplemented", "foo")
        /\ conv[i].data = [code |-> -32601, message |-> "foo", data |-> None]

\* C5 as stated: two errors of different taxonomy members never convert to
\* the same code.
C5_OneToOne ==
    \A i, j \in 1..Len(conv) :
        conv[i].error.variant # conv[j].error.variant
            => conv[i].data.code # conv[j].data.code

\* C5 as amended: two errors of different members convert to the same code
\* exactly when they are TransportError and InternalError, which share
\* -32603; every other pair of members gets two codes.
C5_OneToOneButInternal ==
    \A i, j \in 1..Len(conv) :
        conv[i].error.variant # conv[j].error.variant
            => (conv[i].data.code = conv[j].data.code
                <=> {conv[i].error.variant, conv[j].error.variant}
                        = {"TransportError", "InternalError"})

\* A ProtocolError and a MethodNotImplemented, of codes -32600 and -32601,
\* have been converted one after the other.
C5_Witness ==
    /\ Len(conv) = 2
    /\ conv[1].error.variant = "ProtocolError"
    /\ conv[2].error.variant = "MethodNotImplemented"
    /\ conv[1].data.code = -32600
    /\ conv[2].data.code = -32601

----------------------------------------------------------------------------
(* src/src/protocol.rs: the envelopes and their derived Serialize and      *)
(* Deserialize.  A derived struct is read from an object: a required       *)
(* member must be there with its type, an Option member that is missing or *)
(* null is None, and keys that are no member are ignored.                  *)

\* struct JsonRpcRequest, JsonRpcResponse, JsonRpcNotification, JsonRpcError
JsonRpcRequest(jsonrpc, id, method, params) ==
    [jsonrpc |-> jsonrpc, id |-> id, method |-> method, params |-> params]

JsonRpcResponse(jsonrpc, id, res, error) ==
    [jsonrpc |-> jsonrpc, id |-> id, result |-> res, error |-> error]

JsonRpcNotification(jsonrpc, method, params) ==
    [jsonrpc |-> jsonrpc, method |-> method, params |-> params]

JsonRpcError(jsonrpc, id, error) ==
    [jsonrpc |-> jsonrpc, id |-> id, error |-> error]

\* enum JsonRpcMessage: the variant and the struct it wraps.
JsonRpcMessage(variant, inner) == [variant |-> variant, inner |-> inner]

JsonRpcMessage_Nil == [variant |-> "Nil"]

ErrorData_serialize(e) ==
    JObj(Fields(Field("code", JNum(e.code))
                \cup Field("message", JStr(e.message))
                \cup SkipIfNone("data", e.data)))

JsonRpcRequest_serialize(x) ==
    JObj(Fields(Field("jsonrpc", JStr(x.jsonrpc))
                \cup SkipIfNone("id", x.id)
                \cup Field("method", JStr(x.method))
                \cup SkipIfNone("params", x.params)))

JsonRpcResponse_serialize(x) ==
    JObj(Fields(Field("jsonrpc", JStr(x.jsonrpc))
                \cup SkipIfNone("id", x.id)
                \cup SkipIfNone("result", x.result)
                \cup (IF x.error.some
                        THEN Field("error", ErrorData_serialize(x.error.v))
                        ELSE {})))

JsonRpcNotification_serialize(x) ==
    JObj(Fields(Field("jsonrpc", JStr(x.jsonrpc))
                \cup Field("method", JStr(x.method))
                \cup SkipIfNone("params", x.params)))

JsonRpcError_serialize(x) ==
    JObj(Fields(Field("jsonrpc", JStr(x.jsonrpc))
                \cup SkipIfNone("id", x.id)
                \cup Field("error", ErrorData_serialize(x.error))))

\* #[serde(untagged)]: the variant's content as it is, the unit variant null.
JsonRpcMessage_serialize(x) ==
    CASE x.variant = "Request" -> JsonRpcRequest_serialize(x.inner)
      [] x.variant = "Response" -> JsonRpcResponse_serialize(x.inner)
      [] x.variant = "Notification" -> JsonRpcNotification_serialize(x.inner)
      [] x.variant = "Error" -> JsonRpcError_serialize(x.inner)
      [] x.variant = "Nil" -> JNull

ErrorData_deserialize(j) ==
    IF j.t = "obj" /\ IsI32Field(j, "code") /\ IsStringField(j, "message")
        THEN Ok(ErrorData(j.o["code"].n, j.o["message"].s,
                          OptionValueField(j, "data")))
        ELSE Err("invalid ErrorData")

\* An Option<ErrorData> member: Ok(None) when missing or null.
OptionErrorDataField(j, key) ==
    IF ~HasKey(j, key) \/ j.o[key] = JNull THEN Ok(None)
    ELSE LET e == ErrorData_deserialize(j.o[key]) IN
         IF e.ok THEN Ok(Some(e.v)) ELSE e

JsonRpcRequest_deserialize(j) ==
    IF j.t = "obj" /\ IsStringField(j, "jsonrpc") /\ IsStringField(j, "method")
        THEN Ok(JsonRpcRequest(j.o["jsonrpc"].s, OptionValueField(j, "id"),
                               j.o["method"].s, OptionValueField(j, "params")))
        ELSE Err("invalid JsonRpcRequest")

JsonRpcResponse_deserialize(j) ==
    IF j.t = "obj" /\ IsStringField(j, "jsonrpc")
       /\ OptionErrorDataField(j, "error").ok
        THEN Ok(JsonRpcResponse(j.o["jsonrpc"].s, OptionValueField(j, "id"),
                                OptionValueField(j, "result"),
                                OptionErrorDataField(j, "error").v))
        ELSE Err("invalid JsonRpcResponse")

JsonRpcNotification_deserialize(j) ==
    IF j.t = "obj" /\ IsStringField(j, "jsonrpc") /\ IsStringField(j, "method")
        THEN Ok(JsonRpcNotification(j.o["jsonrpc"].s, j.o["method"].s,
                                    OptionValueField(j, "params")))
        ELSE Err("invalid JsonRpcNotification")

JsonRpcError_deserialize(j) ==
    IF j.t = "obj" /\ IsStringField(j, "jsonrpc") /\ HasKey(j, "error")
       /\ ErrorData_deserialize(j.o["error"]).ok
        THEN Ok(JsonRpcError(j.o["jsonrpc"].s, OptionValueField(j, "id"),
                             ErrorData_deserialize(j.o["error"]).v))
        ELSE Err("invalid JsonRpcError")

\* #[serde(untagged)]: the variants are tried in the order they are
\* declared, Request, Response, Notification, Error, Nil, and the first
\* that deserializes is the result.
JsonRpcMessage_deserialize(j) ==
    IF JsonRpcRequest_deserialize(j).ok
        THEN Ok(JsonRpcMessage("Request", JsonRpcRequest_deserialize(j).v))
    ELSE IF JsonRpcResponse_deserialize(j).ok
        THEN Ok(JsonRpcMessage("Response", JsonRpcResponse_deserialize(j).v))
    ELSE IF JsonRpcNotification_deserialize(j).ok
        THEN Ok(JsonRpcMessage("Notification", JsonRpcNotification_deserialize(j).v))
    ELSE IF JsonRpcError_deserialize(j).ok
        THEN Ok(JsonRpcMessage("Error", JsonRpcError_deserialize(j).v))
    ELSE IF j = JNull
        THEN Ok(JsonRpcMessage_Nil)
    ELSE Err("data did not match any variant of untagged enum JsonRpcMessage")

----------------------------------------------------------------------------
(* The other serialized types: InitializeResult and its capabilities       *)
(* (src/src/protocol.rs), Prompt (src/src/prompt.rs), Resource and         *)
(* ResourceContent (src/src/resource.rs).                                  *)

\* struct PromptsCapability, ToolsCapability: list_changed has no skip
\* attribute.
ListChangedCapability_serialize(c) ==
    JObj(Fields(NullIfNone("listChanged", c.list_changed,
                           JBool(c.list_changed.v))))

\* struct ResourcesCapability: neither member has a skip attribute.
ResourcesCapability_serialize(c) ==
    JObj(Fields(NullIfNone("subscribe", c.subscribe, JBool(c.subscribe.v))
                \cup NullIfNone("listChanged", c.list_changed,
                                JBool(c.list_changed.v))))

\* struct ServerCapabilities
ServerCapabilities_serialize(c) ==
    JObj(Fields((IF c.prompts.some
                    THEN Field("prompts", ListChangedCapability_serialize(c.prompts.v))
                    ELSE {})
                \cup (IF c.resources.some
                    THEN Field("resources", ResourcesCapability_serialize(c.resources.v))
                    ELSE {})
                \cup (IF c.tools.some
                    THEN Field("tools", ListChangedCapability_serialize(c.tools.v))
                    ELSE {})))

\* struct Implementation
Implementation_serialize(i) ==
    JObj(Fields(Field("name", JStr(i.name)) \cup Field("version", JStr(i.version))))

\* struct InitializeResult, #[serde(rename_all = "camelCase")]
InitializeResult_serialize(x) ==
    JObj(Fields(Field("protocolVersion", JStr(x.protocol_version))
                \cup Field("capabilities", ServerCapabilities_serialize(x.capabilities))
                \cup Field("serverInfo", Implementation_serialize(x.server_info))
                \cup (IF x.instructions.some
                        THEN Field("instructions", JStr(x.instructions.v))
                        ELSE {})))

\* struct Prompt
Prompt_serialize(x) ==
    JObj(Fields((IF x.arguments.some
                    THEN Field("arguments", JArr(x.arguments.v))
                    ELSE {})
                \cup Field("name", JStr(x.name))
                \cup (IF x.description.some
                        THEN Field("description", JStr(x.description.v))
                        ELSE {})))

\* struct Resource, #[serde(rename_all = "camelCase")]
Resource_serialize(x) ==
    JObj(Fields(Field("uri", JStr(x.uri))
                \cup Field("mimeType", JStr(x.mime_type))
                \cup Field("name", JStr(x.name))
                \cup (IF x.description.some
                        THEN Field("description", JStr(x.description.v))
                        ELSE {})))

\* enum ResourceContent, #[serde(untagged)]
ResourceContent_serialize(x) ==
    JObj(Fields(Field("uri", JStr(x.uri))
                \cup (IF x.mime_type.some
                        THEN Field("mimeType", JStr(x.mime_type.v))
                        ELSE {})
                \cup (IF x.variant = "TextResourceContents"
                        THEN Field("text", JStr(x.text))
                        ELSE Field("blob", JStr(x.blob)))))

PROTOCOL_VERSION == "0.2.0"

----------------------------------------------------------------------------
(* Inputs of serialization and of decoding *)

IdInputs == {None, Some(JNum(1)), Some(JStr("a"))}

ParamsInputs == {None, Some(JObj(Fields({<<"name", JStr("x")>>})))}

ResultInputs == {None, Some(JStr("ok")), Some(JObj(Fields({<<"n", JNum(3)>>})))}

ErrorDataInputs ==
    {ErrorData(METHOD_NOT_FOUND, "foo", None),
     ErrorData(INTERNAL_ERROR, "oops", Some(JStr("detail")))}

\* Every member of the envelopes is public: any combination can be built.
JsonRpcMessageInputs ==
    {JsonRpcMessage("Request", JsonRpcRequest("2.0", id, "ping", ps)) :
        id \in IdInputs, ps \in ParamsInputs}
    \cup {JsonRpcMessage("Response", JsonRpcResponse("2.0", id, res, e)) :
        id \in IdInputs, res \in ResultInputs,
        e \in {None} \cup {Some(d) : d \in ErrorDataInputs}}
    \cup {JsonRpcMessage("Notification", JsonRpcNotification("2.0", "ping", ps)) :
        ps \in ParamsInputs}
    \cup {JsonRpcMessage("Error", JsonRpcError("2.0", id, e)) :
        id \in IdInputs, e \in ErrorDataInputs}
    \cup {JsonRpcMessage_Nil}

OptionBool == {None, Some(TRUE), Some(FALSE)}

InitializeResultInputs ==
    {[protocol_version |-> PROTOCOL_VERSION,
      capabilities |-> [prompts |-> ps, resources |-> rs, tools |-> ts],
      server_info |-> [name |-> "mcp-ox", version |-> "0.1.0"],
      instructions |-> ins] :
        ps \in {None} \cup {Some([list_changed |-> lc]) : lc \in OptionBool},
        rs \in {None} \cup {Some([subscribe |-> sb, list_changed |-> lc]) :
                                sb \in OptionBool, lc \in {None, Some(TRUE)}},
        ts \in {None} \cup {Some([list_changed |-> lc]) : lc \in {None, Some(TRUE)}},
        ins \in {None, Some("Be brief")}}

PromptInputs ==
    {[arguments |-> as, name |-> "greet", description |-> ds] :
        as \in {None, Some(<<>>), Some(<<JObj(Fields({<<"type", JStr("string")>>}))>>)},
        ds \in {None, Some("Says hello")}}

ResourceInputs ==
    {[uri |-> "file:///test.txt", mime_type |-> "text/plain", name |-> n,
      description |-> ds] :
        n \in {"unnamed", "test.txt"}, ds \in {None, Some("A test resource")}}

ResourceContentInputs ==
    {[variant |-> "TextResourceContents", uri |-> "str:///content",
      mime_type |-> mt, text |-> "Hello world"] :
        mt \in {None, Some("text/plain")}}
    \cup {[variant |-> "BlobResourceContent", uri |-> "blob:///data",
           mime_type |-> mt, blob |-> "YWJj"] :
        mt \in {None, Some("application/octet-stream")}}

\* The values a peer may put under each key of a document, well typed or
\* not; Absent leaves the key out.
Absent == [t |-> "absent"]

KeyInputs ==
    [jsonrpc |-> {Absent, JStr("2.0"), JNum(2)},
     id |-> {Absent, JNum(1), JNull},
     method |-> {Absent, JStr("ping"), JNum(7)},
     params |-> {Absent, JObj(Fields({}))},
     result |-> {Absent, JStr("ok"), JNull},
     error |-> {Absent, JNull, JStr("bad"),
                ErrorData_serialize(ErrorData(METHOD_NOT_FOUND, "foo", None)),
                JObj(Fields({<<"code", JNum(1)>>}))}]

\* The object with the keys of the choice c that are not Absent.
Document(c) ==
    JObj([k \in {key \in DOMAIN c : c[key] # Absent} |-> c[k]])

DocumentInputs ==
    {Document(c) : c \in [jsonrpc : KeyInputs.jsonrpc, id : KeyInputs.id,
                          method : KeyInputs.method, params : KeyInputs.params,
                          result : KeyInputs.result, error : KeyInputs.error]}
    \cup {JNull, JStr("ping"), JNum(1)}

----------------------------------------------------------------------------
(* Serialization and decoding as steps *)

\* What a serialization leaves: the value, typed, and its document.
Sent(ty, x) == Some([ty |-> ty, v |-> x])

\* serde_json::to_value(message)
SerializeJsonRpcMessage ==
    /\ \E x \in JsonRpcMessageInputs :
        /\ sent' = Sent("JsonRpcMessage", x)
        /\ wire' = Some(JsonRpcMessage_serialize(x))
    /\ received' = None
    /\ UNCHANGED <<imageVars, errorVars, resourceVars, decodeVars, promptVars>>

SerializeInitializeResult ==
    /\ \E x \in InitializeResultInputs :
        /\ sent' = Sent("InitializeResult", x)
        /\ wire' = Some(InitializeResult_serialize(x))
    /\ received' = None
    /\ UNCHANGED <<imageVars, errorVars, resourceVars, decodeVars, promptVars>>

SerializePrompt ==
    /\ \E x \in PromptInputs :
        /\ sent' = Sent("Prompt", x)
        /\ wire' = Some(Prompt_serialize(x))
    /\ received' = None
    /\ UNCHANGED <<imageVars, errorVars, resourceVars, decodeVars, promptVars>>

SerializeResource ==
    /\ \E x \in ResourceInputs :
        /\ sent' = Sent("Resource", x)
        /\ wire' = Some(Resource_serialize(x))
    /\ received' = None
    /\ UNCHANGED <<imageVars, errorVars, resourceVars, decodeVars, promptVars>>

SerializeResourceContent ==
    /\ \E x \in ResourceContentInputs :
        /\ sent' = Sent("ResourceContent", x)
        /\ wire' = Some(ResourceContent_serialize(x))
    /\ received' = None
    /\ UNCHANGED <<imageVars, errorVars, resourceVars, decodeVars, promptVars>>

\* A document arrives from the peer.
ReceiveDocument ==
    /\ \E j \in DocumentInputs : wire' = Some(j)
    /\ sent' = None
    /\ received' = None
    /\ UNCHANGED <<imageVars, errorVars, resourceVars, decodeVars, promptVars>>

\* serde_json::from_value::<JsonRpcMessage>(wire), of a document that
\* arrived or of the one a message was serialized to.
DeserializeJsonRpcMessage ==
    /\ wire.some
    /\ sent.some => sent.v.ty = "JsonRpcMessage"
    /\ received = None
    /\ received' = Some(JsonRpcMessage_deserialize(wire.v))
    /\ UNCHANGED <<sent, wire, imageVars, errorVars, resourceVars, decodeVars, promptVars>>

WireNext ==
    \/ SerializeJsonRpcMessage
    \/ SerializeInitializeResult
    \/ SerializePrompt
    \/ SerializeResource
    \/ SerializeResourceContent
    \/ ReceiveDocument
    \/ DeserializeJsonRpcMessage

SpecWire == Init /\ [][WireNext]_vars

----------------------------------------------------------------------------
(* Claims about the envelopes on the wire *)

\* The message that was serialized has been decoded again.
RoundTripDone ==
    /\ sent.some
    /\ sent.v.ty = "JsonRpcMessage"
    /\ received.some

\* C6: for every JsonRpcMessage x of the variants Request, Response,
\* Notification and Error, decoding the JSON that encoding x produced gives
\* a value equal to x, of the same variant.
C6_RoundTrip ==
    (RoundTripDone /\ sent.v.v.variant # "Nil")
        => /\ received.v.ok
           /\ received.v.v.variant = sent.v.v.variant
           /\ received.v.v = sent.v.v

\* A response has exactly one of result and error.
ExactlyOneOfResultAndError(r) == r.result.some # r.error.some

\* C7: a Response envelope, built or decoded from a JSON document, has
\* exactly one of result and error present.
C7_ResponseExactlyOne ==
    /\ (sent.some /\ sent.v.ty = "JsonRpcMessage" /\ sent.v.v.variant = "Response")
            => ExactlyOneOfResultAndError(sent.v.v.inner)
    /\ (received.some /\ received.v.ok /\ received.v.v.variant = "Response")
            => ExactlyOneOfResultAndError(received.v.v.inner)

\* The member opt, when None, has left no key in the object j.
AbsentOmitted(opt, j, key) == ~opt.some => ~HasKey(j, key)

EnvelopeAbsentOmitted(x, j) ==
    CASE x.variant = "Request" ->
            /\ AbsentOmitted(x.inner.id, j, "id")
            /\ AbsentOmitted(x.inner.params, j, "params")
      [] x.variant = "Response" ->
            /\ AbsentOmitted(x.inner.id, j, "id")
            /\ AbsentOmitted(x.inner.result, j, "result")
            /\ AbsentOmitted(x.inner.error, j, "error")
            /\ x.inner.error.some
                    => AbsentOmitted(x.inner.error.v.data, j.o["error"], "data")
      [] x.variant = "Notification" ->
            AbsentOmitted(x.inner.params, j, "params")
      [] x.variant = "Error" ->
            /\ AbsentOmitted(x.inner.id, j, "id")
            /\ AbsentOmitted(x.inner.error.data, j.o["error"], "data")
      [] x.variant = "Nil" -> TRUE

InitializeResultAbsentOmitted(x, j) ==
    LET c  == x.capabilities
        jc == j.o["capabilities"]
    IN  /\ AbsentOmitted(x.instructions, j, "instructions")
        /\ AbsentOmitted(c.prompts, jc, "prompts")
        /\ AbsentOmitted(c.resources, jc, "resources")
        /\ AbsentOmitted(c.tools, jc, "tools")
        /\ c.prompts.some
                => AbsentOmitted(c.prompts.v.list_changed, jc.o["prompts"], "listChanged")
        /\ c.resources.some
                => /\ AbsentOmitted(c.resources.v.subscribe, jc.o["resources"], "subscribe")
                   /\ AbsentOmitted(c.resources.v.list_changed, jc.o["resources"], "listChanged")
        /\ c.tools.some
                => AbsentOmitted(c.tools.v.list_changed, jc.o["tools"], "listChanged")

\* C8: serialization gives an absent (None) member no key in the JSON, for
\* every envelope, ErrorData, InitializeResult with each capability's
\* listChanged and subscribe, Prompt, Resource and resource content.
C8_AbsentOmitted ==
    (sent.some /\ wire.some)
        => LET x == sent.v.v
               j == wire.v
           IN  CASE sent.v.ty = "JsonRpcMessage" -> EnvelopeAbsentOmitted(x, j)
                 [] sent.v.ty = "InitializeResult" -> InitializeResultAbsentOmitted(x, j)
                 [] sent.v.ty = "Prompt" ->
                        /\ AbsentOmitted(x.arguments, j, "arguments")
                        /\ AbsentOmitted(x.description, j, "description")
                 [] sent.v.ty = "Resource" ->
                        AbsentOmitted(x.description, j, "description")
                 [] sent.v.ty = "ResourceContent" ->
                        AbsentOmitted(x.mime_type, j, "mimeType")

----------------------------------------------------------------------------
(* url::Url and mime::Mime, the typed arguments of the resource builder.   *)
(* A Url is held parsed: its scheme, its host when it has an authority,    *)
(* and its path.                                                            *)

Url(scheme, host, path) == [scheme |-> scheme, host |-> host, path |-> path]

\* Url::to_string
Url_to_string(u) ==
    u.scheme \o ":" \o (IF u.host.some THEN "//" \o u.host.v ELSE "") \o u.path

\* str::split('/'): the pieces between the slashes, at least one.
RECURSIVE SplitSlash(_)
SplitSlash(str) ==
    LET slashes == {i \in 1..Len(str) : CharAt(str, i) = "/"} IN
    IF slashes = {} THEN <<str>>
    ELSE LET i == CHOOSE k \in slashes : \A l \in slashes : k <= l IN
         <<SubSeq(str, 1, i - 1)>> \o SplitSlash(SubSeq(str, i + 1, Len(str)))

\* Url::path_segments: None unless the path starts with '/', else the path
\* after that slash, split on '/'.
Url_path_segments(u) ==
    IF StartsWith(u.path, "/")
        THEN Some(SplitSlash(SubSeq(u.path, 2, Len(u.path))))
        ELSE None

Mime(ty, subty) == [ty |-> ty, subty |-> subty]

\* Mime::to_string
Mime_to_string(m) == m.ty \o "/" \o m.subty

UrlInputs ==
    {Url("file", Some(""), "/a/b/test.txt"),
     Url("file", Some(""), "/test.txt"),
     Url("file", Some(""), "/a/b/"),
     Url("https", Some("example.com"), "/data.json"),
     Url("https", Some("example.com"), "/"),
     Url("str", Some(""), "/Hello-world!"),
     Url("foo", Some("host"), ""),
     Url("mailto", None, "user@example.com"),
     Url("data", None, "text/plain,hi")}

\* mime::TEXT_PLAIN, mime::APPLICATION_OCTET_STREAM, mime::APPLICATION_JSON
MimeValues ==
    {Mime("text", "plain"), Mime("application", "octet-stream"),
     Mime("application", "json")}

NameInputs == {"test", "test.txt", ""}

----------------------------------------------------------------------------
(* src/src/resource.rs *)

\* Resource::builder() with the MIME default the tests of the file expect.
Resource_builder_TextDefault ==
    [uri |-> "", mime_type |-> "text", name |-> "unnamed", description |-> None]

\* Resource::builder(): uri starts at String::default(), mime_type and name
\* at the values of #[builder(field = ...)], description is unset.
Resource_builder ==
    [uri |-> "", mime_type |-> "text/plain", name |-> "unnamed", description |-> None]

\* ResourceBuilder::uri
ResourceBuilder_uri(self, uri) == [self EXCEPT !.uri = Url_to_string(uri)]

\* ResourceBuilder::mime_type
ResourceBuilder_mime_type(self, mime_type) ==
    [self EXCEPT !.mime_type = Mime_to_string(mime_type)]

\* ResourceBuilder::name
ResourceBuilder_name(self, name) == [self EXCEPT !.name = name]

\* ResourceBuilder::name_from_uri taking the first path segment.
ResourceBuilder_name_from_uri_First(self, uri) ==
    LET segments == Url_path_segments(uri) IN
    [self EXCEPT !.name = IF segments.some THEN Head(segments.v) ELSE "unnamed"]

\* ResourceBuilder::name_from_uri
ResourceBuilder_name_from_uri(self, uri) ==
    LET segments == Url_path_segments(uri) IN
    [self EXCEPT !.name = IF segments.some
                            THEN segments.v[Len(segments.v)]
                            ELSE "unnamed"]

\* ResourceBuilder::description (generated setter of an optional member)
ResourceBuilder_description(self, description) ==
    [self EXCEPT !.description = Some(description)]

\* ResourceBuilder::build (generated)
ResourceBuilder_build(self) ==
    [uri |-> self.uri, mime_type |-> self.mime_type, name |-> self.name,
     description |-> self.description]

----------------------------------------------------------------------------
(* The resource builder as steps *)

ResourceIdle == rb = None /\ resource = None

ResourceBuilderNew ==
    /\ ResourceIdle
    /\ rb' = Some(Resource_builder)
    /\ UNCHANGED <<resource, rcalls, schemed, imageVars, errorVars, wireVars, decodeVars, promptVars>>

ResourceBuilderUri ==
    /\ rb.some
    /\ \E u \in UrlInputs :
        /\ rb' = Some(ResourceBuilder_uri(rb.v, u))
        /\ rcalls' = [rcalls EXCEPT !.uri = Some(u)]
    /\ UNCHANGED <<resource, schemed, imageVars, errorVars, wireVars, decodeVars, promptVars>>

ResourceBuilderMimeType ==
    /\ rb.some
    /\ \E m \in MimeValues :
        /\ rb' = Some(ResourceBuilder_mime_type(rb.v, m))
        /\ rcalls' = [rcalls EXCEPT !.mime_type = Some(m)]
    /\ UNCHANGED <<resource, schemed, imageVars, errorVars, wireVars, decodeVars, promptVars>>

ResourceBuilderName ==
    /\ rb.some
    /\ \E n \in NameInputs :
        /\ rb' = Some(ResourceBuilder_name(rb.v, n))
        /\ rcalls' = [rcalls EXCEPT !.name = Some([by |-> "name", name |-> n])]
    /\ UNCHANGED <<resource, schemed, imageVars, errorVars, wireVars, decodeVars, promptVars>>

ResourceBuilderNameFromUri ==
    /\ rb.some
    /\ \E u \in UrlInputs :
        /\ rb' = Some(ResourceBuilder_name_from_uri(rb.v, u))
        /\ rcalls' = [rcalls EXCEPT !.name = Some([by |-> "name_from_uri", uri |-> u])]
    /\ UNCHANGED <<resource, schemed, imageVars, errorVars, wireVars, decodeVars, promptVars>>

\* The typestate of the generated builder lets description be set once.
ResourceBuilderDescription ==
    /\ rb.some
    /\ ~rb.v.description.some
    /\ rb' = Some(ResourceBuilder_description(rb.v, "A test resource"))
    /\ rcalls' = [rcalls EXCEPT !.description = Some("A test resource")]
    /\ UNCHANGED <<resource, schemed, imageVars, errorVars, wireVars, decodeVars, promptVars>>

ResourceBuilderBuild ==
    /\ rb.some
    /\ resource' = Some(ResourceBuilder_build(rb.v))
    /\ rb' = None
    /\ UNCHANGED <<rcalls, schemed, imageVars, errorVars, wireVars, decodeVars, promptVars>>

\* The caller drops the resource built and starts afresh.
ResourceDiscard ==
    /\ resource.some
    /\ resource' = None
    /\ rcalls' = NoCalls
    /\ schemed' = None
    /\ UNCHANGED <<rb, imageVars, errorVars, wireVars, decodeVars, promptVars>>

\* The letters and digits of a scheme.
LowerLetters == "abcdefghijklmnopqrstuvwxyz"

UpperLetters == "ABCDEFGHIJKLMNOPQRSTUVWXYZ"

Digits == "0123456789"

IsAlpha(c) ==
    \E i \in 1..26 : CharAt(LowerLetters, i) = c \/ CharAt(UpperLetters, i) = c

IsDigit(c) == \E i \in 1..10 : CharAt(Digits, i) = c

\* A scheme: a letter, then letters, digits, '+', '-' and '.'.
IsScheme(str) ==
    /\ Len(str) > 0
    /\ IsAlpha(CharAt(str, 1))
    /\ \A i \in 2..Len(str) :
            \/ IsAlpha(CharAt(str, i))
            \/ IsDigit(CharAt(str, i))
            \/ CharAt(str, i) \in {"+", "-", "."}

\* The scheme is stored in lower case.
RECURSIVE ToLower(_)
ToLower(str) ==
    IF str = "" THEN ""
    ELSE LET c == CharAt(str, 1)
             uppers == {i \in 1..26 : CharAt(UpperLetters, i) = c}
         IN  (IF uppers = {} THEN c ELSE CharAt(LowerLetters, CHOOSE i \in uppers : TRUE))
                \o ToLower(SubSeq(str, 2, Len(str)))

\* Url::parse, with no base URL, of a string that Url::to_string gave or of
\* one with no scheme: the scheme runs up to the first ':'; without one the
\* string is a relative reference and is refused.  After "//" comes the
\* host, up to the next '/'; the rest is the path.
Url_parse(str) ==
    LET colons == {i \in 1..Len(str) : CharAt(str, i) = ":"} IN
    IF colons = {} THEN Err("RelativeUrlWithoutBase")
    ELSE LET i    == CHOOSE k \in colons : \A l \in colons : k <= l
             sch  == SubSeq(str, 1, i - 1)
             rest == SubSeq(str, i + 1, Len(str))
         IN  IF ~IsScheme(sch) THEN Err("RelativeUrlWithoutBase")
             ELSE IF StartsWith(rest, "//")
                THEN LET after   == SubSeq(rest, 3, Len(rest))
                         slashes == {k \in 1..Len(after) : CharAt(after, k) = "/"}
                         hostEnd == IF slashes = {} THEN Len(after)
                                    ELSE (CHOOSE k \in slashes :
                                            \A l \in slashes : k <= l) - 1
                     IN  Ok(Url(ToLower(sch), Some(SubSeq(after, 1, hostEnd)),
                                SubSeq(after, hostEnd + 1, Len(after))))
                ELSE Ok(Url(ToLower(sch), None, rest))

\* ResourceError::InvalidUri(e)
InvalidUri(e) == [kind |-> "InvalidUri", source |-> e]

\* Resource::scheme
Resource_scheme(self) ==
    LET url == Url_parse(self.uri) IN
    IF ~url.ok THEN Err(InvalidUri(url.e))
    ELSE Ok(url.v.scheme)

\* resource.scheme()
ResourceScheme ==
    /\ resource.some
    /\ schemed = None
    /\ schemed' = Some(Resource_scheme(resource.v))
    /\ UNCHANGED <<rb, resource, rcalls, imageVars, errorVars, wireVars, decodeVars, promptVars>>

ResourceNext ==
    \/ ResourceScheme
    \/ ResourceBuilderNew
    \/ ResourceBuilderUri
    \/ ResourceBuilderMimeType
    \/ ResourceBuilderName
    \/ ResourceBuilderNameFromUri
    \/ ResourceBuilderDescription
    \/ ResourceBuilderBuild
    \/ ResourceDiscard

SpecResource == Init /\ [][ResourceNext]_vars

----------------------------------------------------------------------------
(* Claims about the resource builder *)

EndsWith(str, suffix) ==
    /\ Len(str) >= Len(suffix)
    /\ SubSeq(str, Len(str) - Len(suffix) + 1, Len(str)) = suffix

\* n is the final path segment of u: the path ends in '/' followed by n,
\* and n holds no '/'.  When u has no path segments the name is "unnamed".
NameIsFinalSegment(n, u) ==
    IF StartsWith(u.path, "/")
        THEN /\ EndsWith(u.path, "/" \o n)
             /\ \A i \in 1..Len(n) : CharAt(n, i) # "/"
        ELSE n = "unnamed"

\* C9 as stated: a Resource built with uri(u) and no explicit name has the
\* final path segment of u as its name ("unnamed" when u has no path
\* segments), the value name_from_uri computes.
C9_NameDerivedFromUri ==
    /\ (resource.some /\ rcalls.uri.some /\ ~rcalls.name.some)
            => NameIsFinalSegment(resource.v.name, rcalls.uri.v)
    /\ (resource.some /\ rcalls.name.some /\ rcalls.name.v.by = "name_from_uri")
            => NameIsFinalSegment(resource.v.name, rcalls.name.v.uri)

\* C9 as amended: uri(u) leaves the name alone, so a Resource built with
\* uri(u) and neither name nor name_from_uri has the name "unnamed"
\* whatever u is; the name is the final path segment of u ("unnamed" when u
\* has no path segments) only when name_from_uri(u) was the last call that
\* set the name.
C9_NameDerivedByNameFromUri ==
    /\ (resource.some /\ rcalls.uri.some /\ ~rcalls.name.some)
            => resource.v.name = "unnamed"
    /\ (resource.some /\ rcalls.name.some /\ rcalls.name.v.by = "name_from_uri")
            => NameIsFinalSegment(resource.v.name, rcalls.name.v.uri)

\* A Resource has been built over file:///a/b/test.txt with name_from_uri
\* of the same URL, and is named test.txt.
C9_Witness ==
    /\ resource.some
    /\ rcalls.uri = Some(Url("file", Some(""), "/a/b/test.txt"))
    /\ rcalls.name = Some([by |-> "name_from_uri",
                           uri |-> Url("file", Some(""), "/a/b/test.txt")])
    /\ resource.v.uri = "file:///a/b/test.txt"
    /\ resource.v.name = "test.txt"

----------------------------------------------------------------------------
(* src/src/resource.rs: decoding a resource payload (ResourceContent,      *)
(* derive Deserialize, untagged).  The payloads modelled are JSON objects  *)
(* and scalars.                                                            *)

\* An Option<String> member deserializes from a missing key, a null or a
\* string; any other value is an error.
OptionStringFieldOk(j, key) ==
    ~HasKey(j, key) \/ j.o[key].t \in {"null", "str"}

OptionStringField(j, key) ==
    IF HasKey(j, key) /\ j.o[key].t = "str" THEN Some(j.o[key].s) ELSE None

\* ResourceContent::TextResourceContents { uri, mime_type, text }
TextResourceContents_deserialize(j) ==
    IF /\ j.t = "obj"
       /\ IsStringField(j, "uri")
       /\ OptionStringFieldOk(j, "mimeType")
       /\ IsStringField(j, "text")
        THEN Ok([variant |-> "TextResourceContents", uri |-> j.o["uri"].s,
                 mime_type |-> OptionStringField(j, "mimeType"),
                 text |-> j.o["text"].s])
        ELSE Err("missing or invalid field")

\* ResourceContent::BlobResourceContent { uri, mime_type, blob }
BlobResourceContent_deserialize(j) ==
    IF /\ j.t = "obj"
       /\ IsStringField(j, "uri")
       /\ OptionStringFieldOk(j, "mimeType")
       /\ IsStringField(j, "blob")
        THEN Ok([variant |-> "BlobResourceContent", uri |-> j.o["uri"].s,
                 mime_type |-> OptionStringField(j, "mimeType"),
                 blob |-> j.o["blob"].s])
        ELSE Err("missing or invalid field")

\* The untagged decoder with the variants tried in the other order.
ResourceContent_deserialize_BlobFirst(j) ==
    IF BlobResourceContent_deserialize(j).ok
        THEN BlobResourceContent_deserialize(j)
    ELSE IF TextResourceContents_deserialize(j).ok
        THEN TextResourceContents_deserialize(j)
    ELSE Err("data did not match any variant of untagged enum ResourceContent")

\* enum ResourceContent, #[serde(untagged)]: the variants are tried in the
\* order of their declaration and the first that deserializes is returned.
ResourceContent_deserialize(j) ==
    IF TextResourceContents_deserialize(j).ok
        THEN TextResourceContents_deserialize(j)
    ELSE IF BlobResourceContent_deserialize(j).ok
        THEN BlobResourceContent_deserialize(j)
    ELSE Err("data did not match any variant of untagged enum ResourceContent")

\* The values a peer may put under each key of a resource payload.
ResourceContentKeyInputs ==
    [uri |-> {Absent, JStr("str:///content"), JNum(1)},
     mimeType |-> {Absent, JNull, JStr("text/plain"),
                   JStr("application/octet-stream"), JNum(5)},
     text |-> {Absent, JStr("Hello world"), JStr(""), JNum(7), JNull},
     blob |-> {Absent, JStr("YWJj"), JStr("not base64!"), JNum(7)}]

ResourceContentPayloads ==
    {Document(c) : c \in [uri : ResourceContentKeyInputs.uri,
                          mimeType : ResourceContentKeyInputs.mimeType,
                          text : ResourceContentKeyInputs.text,
                          blob : ResourceContentKeyInputs.blob]}
    \cup {JNull, JStr("Hello world")}

\* A payload arrives, to be decoded as the type ty.
Payload(ty, j) == Some([ty |-> ty, j |-> j])

ReceiveResourceContent ==
    /\ \E j \in ResourceContentPayloads : payload' = Payload("ResourceContent", j)
    /\ decoded' = None
    /\ UNCHANGED <<imageVars, errorVars, wireVars, resourceVars, promptVars>>

\* serde_json::from_value::<ResourceContent>(payload)
DeserializeResourceContent ==
    /\ payload.some
    /\ payload.v.ty = "ResourceContent"
    /\ decoded = None
    /\ decoded' = Some(ResourceContent_deserialize(payload.v.j))
    /\ UNCHANGED <<payload, imageVars, errorVars, wireVars, resourceVars, promptVars>>

----------------------------------------------------------------------------
(* src/src/prompt.rs: decoding a prompt message (PromptMessage and the     *)
(* types of its content, derive Deserialize).                              *)

\* enum PromptMessageRole, #[serde(rename_all = "lowercase")]
PromptMessageRole_deserialize(j) ==
    IF j.t = "str" /\ j.s = "user" THEN Ok("User")
    ELSE IF j.t = "str" /\ j.s = "assistant" THEN Ok("Assistant")
    ELSE Err("unknown variant, expected user or assistant")

\* struct TextContent
TextContent_deserialize(j) ==
    IF j.t = "obj" /\ IsStringField(j, "text")
        THEN Ok(TextContent(j.o["text"].s))
        ELSE Err("missing or invalid field")

\* struct ImageContent, #[serde(rename_all = "camelCase")]: two Strings,
\* stored as they come.
ImageContent_deserialize(j) ==
    IF j.t = "obj" /\ IsStringField(j, "data") /\ IsStringField(j, "mimeType")
        THEN Ok(ImageContent(j.o["data"].s, j.o["mimeType"].s))
        ELSE Err("missing or invalid field")

\* struct TextResourceContents, #[serde(rename_all = "camelCase")]
PromptTextResourceContents_deserialize(j) ==
    IF /\ j.t = "obj"
       /\ IsStringField(j, "uri")
       /\ OptionStringFieldOk(j, "mimeType")
       /\ IsStringField(j, "text")
        THEN Ok([uri |-> j.o["uri"].s,
                 mime_type |-> OptionStringField(j, "mimeType"),
                 text |-> j.o["text"].s])
        ELSE Err("missing or invalid field")

\* struct EmbeddedResource
EmbeddedResource_deserialize(j) ==
    IF HasKey(j, "resource") /\ PromptTextResourceContents_deserialize(j.o["resource"]).ok
        THEN Ok([resource |-> PromptTextResourceContents_deserialize(j.o["resource"]).v])
        ELSE Err("missing or invalid field")

\* enum PromptMessageContent, #[serde(tag = "type", rename_all =
\* "lowercase")]: the tag picks the variant, the other keys are its members.
PromptMessageContent_deserialize(j) ==
    IF ~(j.t = "obj" /\ IsStringField(j, "type"))
        THEN Err("missing field type")
    ELSE IF j.o["type"].s = "text"
        THEN IF TextContent_deserialize(j).ok
                THEN Ok(ContentText(TextContent_deserialize(j).v.text))
                ELSE TextContent_deserialize(j)
    ELSE IF j.o["type"].s = "image"
        THEN IF ImageContent_deserialize(j).ok
                THEN Ok(ContentImage(ImageContent_deserialize(j).v))
                ELSE ImageContent_deserialize(j)
    ELSE IF j.o["type"].s = "resource"
        THEN IF HasKey(j, "resource") /\ EmbeddedResource_deserialize(j.o["resource"]).ok
                THEN Ok([type |-> "resource",
                         resource |-> EmbeddedResource_deserialize(j.o["resource"]).v])
                ELSE Err("missing or invalid field")
    ELSE Err("unknown variant, expected one of text, image, resource")

\* struct PromptMessage
PromptMessage_deserialize(j) ==
    IF /\ j.t = "obj"
       /\ HasKey(j, "content")
       /\ PromptMessageContent_deserialize(j.o["content"]).ok
       /\ HasKey(j, "role")
       /\ PromptMessageRole_deserialize(j.o["role"]).ok
        THEN Ok([content |-> PromptMessageContent_deserialize(j.o["content"]).v,
                 role |-> PromptMessageRole_deserialize(j.o["role"]).v])
        ELSE Err("missing or invalid field")

\* The data and MIME strings a peer may send: valid, empty, badly padded
\* and outside the alphabet; an image type, another type, nothing.
DataPayloads == {"QUJD", "QUJDRA==", "", "QUJDRA=", "not base64!", "!"}

MimePayloads == {"image/png", "image/", "text/plain", ""}

\* Image objects, as the content of a message (tagged) and on their own.
ImagePayloads ==
    {Document(c) : c \in [type : {JStr("image")},
                          data : {Absent, JNum(1)} \cup {JStr(d) : d \in DataPayloads},
                          mimeType : {Absent} \cup {JStr(m) : m \in MimePayloads}]}

ContentPayloads ==
    ImagePayloads
    \cup {JObj(Fields({<<"type", JStr("text")>>, <<"text", JStr("hi")>>})),
          JObj(Fields({<<"type", JStr("text")>>})),
          JObj(Fields({<<"type", JStr("audio")>>, <<"data", JStr("QUJD")>>})),
          JObj(Fields({<<"text", JStr("hi")>>})),
          JObj(Fields({<<"type", JStr("resource")>>,
                       <<"resource", JObj(Fields({<<"resource",
                            JObj(Fields({<<"uri", JStr("str:///content")>>,
                                         <<"text", JStr("Hello world")>>}))>>}))>>})),
          JStr("hi")}

PromptMessagePayloads ==
    {Document(c) : c \in [role : {Absent, JStr("user"), JStr("assistant"), JStr("system")},
                          content : {Absent} \cup ContentPayloads]}
    \cup {JNull}

ReceivePromptMessage ==
    /\ \E j \in PromptMessagePayloads : payload' = Payload("PromptMessage", j)
    /\ decoded' = None
    /\ UNCHANGED <<imageVars, errorVars, wireVars, resourceVars, promptVars>>

ReceiveImageContent ==
    /\ \E j \in ImagePayloads \cup {JNull} : payload' = Payload("ImageContent", j)
    /\ decoded' = None
    /\ UNCHANGED <<imageVars, errorVars, wireVars, resourceVars, promptVars>>

\* serde_json::from_value::<PromptMessage>(payload)
DeserializePromptMessage ==
    /\ payload.some
    /\ payload.v.ty = "PromptMessage"
    /\ decoded = None
    /\ decoded' = Some(PromptMessage_deserialize(payload.v.j))
    /\ UNCHANGED <<payload, imageVars, errorVars, wireVars, resourceVars, promptVars>>

\* serde_json::from_value::<ImageContent>(payload)
DeserializeImageContent ==
    /\ payload.some
    /\ payload.v.ty = "ImageContent"
    /\ decoded = None
    /\ decoded' = Some(ImageContent_deserialize(payload.v.j))
    /\ UNCHANGED <<payload, imageVars, errorVars, wireVars, resourceVars, promptVars>>

DecodeNext ==
    \/ ReceiveResourceContent
    \/ DeserializeResourceContent
    \/ ReceivePromptMessage
    \/ DeserializePromptMessage
    \/ ReceiveImageContent
    \/ DeserializeImageContent

SpecDecode == Init /\ [][DecodeNext]_vars

----------------------------------------------------------------------------
(* Claims about decoding a resource payload *)

\* A resource payload has been decoded.
ResourceContentDecoded ==
    /\ payload.some
    /\ payload.v.ty = "ResourceContent"
    /\ decoded.some

\* The variant a decoding chose, "none" when it failed.
VariantChosen(r) == IF r.ok THEN r.v.variant ELSE "none"

\* The object j without the key mimeType.
WithoutMimeType(j) == JObj([k \in DOMAIN j.o \ {"mimeType"} |-> j.o[k]])

\* C11: decoding a resource payload is structural and strict.  With uri,
\* text and blob strings where present and mimeType absent, null or a
\* string: a payload with uri and text decodes to the text variant with
\* that text, whether or not it has a blob too (text is tried first); one
\* with uri and blob and no text decodes to the blob variant with that
\* blob; one with neither text nor blob is a decode error; and the variant
\* chosen is the one chosen for the same payload without its mimeType.
C11_DecodingStructural ==
    ResourceContentDecoded =>
        LET j == payload.v.j
            r == decoded.v.v
            res == decoded.v
        IN  /\ j.t # "obj" => ~res.ok
            /\ j.t = "obj" =>
                /\ (/\ IsStringField(j, "uri")
                    /\ IsStringField(j, "text")
                    /\ OptionStringFieldOk(j, "mimeType"))
                        => /\ res.ok
                           /\ r.variant = "TextResourceContents"
                           /\ r.text = j.o["text"].s
                           /\ r.uri = j.o["uri"].s
                /\ (/\ IsStringField(j, "uri")
                    /\ IsStringField(j, "blob")
                    /\ ~HasKey(j, "text")
                    /\ OptionStringFieldOk(j, "mimeType"))
                        => /\ res.ok
                           /\ r.variant = "BlobResourceContent"
                           /\ r.blob = j.o["blob"].s
                           /\ r.uri = j.o["uri"].s
                /\ (~HasKey(j, "text") /\ ~HasKey(j, "blob")) => ~res.ok
                /\ OptionStringFieldOk(j, "mimeType")
                        => VariantChosen(res)
                            = VariantChosen(ResourceContent_deserialize(WithoutMimeType(j)))
                /\ res.ok => r.mime_type = OptionStringField(j, "mimeType")

\* A payload with both text and blob, and a mimeType that names binary
\* content, was decoded to the text variant.
C11_Witness ==
    /\ ResourceContentDecoded
    /\ payload.v.j.t = "obj"
    /\ IsStringField(payload.v.j, "text")
    /\ IsStringField(payload.v.j, "blob")
    /\ IsStringField(payload.v.j, "mimeType")
    /\ payload.v.j.o["mimeType"].s = "application/octet-stream"
    /\ decoded.v.ok
    /\ decoded.v.v.variant = "TextResourceContents"
    /\ decoded.v.v.text = "Hello world"

----------------------------------------------------------------------------
(* Claims about decoding a prompt message *)

\* The payload is a message with a role and an image content whose data and
\* mimeType are strings.
IsImageMessagePayload(j) ==
    /\ j.t = "obj"
    /\ HasKey(j, "role")
    /\ PromptMessageRole_deserialize(j.o["role"]).ok
    /\ HasKey(j, "content")
    /\ j.o["content"].t = "obj"
    /\ IsStringField(j.o["content"], "type")
    /\ j.o["content"].o["type"].s = "image"
    /\ IsStringField(j.o["content"], "data")
    /\ IsStringField(j.o["content"], "mimeType")

\* C12: decoding re-validates as construction does.  A decoded PromptMessage
\* with image content, and a decoded ImageContent, has data that is valid
\* base64 and a MIME type starting with "image/"; an image message payload
\* is accepted by decoding exactly when PromptMessage::new_image accepts
\* its role, data and MIME type.
C12_DecodingRevalidates ==
    /\ (/\ payload.some /\ payload.v.ty = "PromptMessage"
        /\ decoded.some /\ decoded.v.ok
        /\ decoded.v.v.content.type = "image")
            => ImageValid(decoded.v.v.content)
    /\ (/\ payload.some /\ payload.v.ty = "ImageContent"
        /\ decoded.some /\ decoded.v.ok)
            => ImageValid(decoded.v.v)
    /\ (/\ payload.some /\ payload.v.ty = "PromptMessage"
        /\ decoded.some
        /\ IsImageMessagePayload(payload.v.j))
            => LET c == payload.v.j.o["content"]
                   r == PromptMessageRole_deserialize(payload.v.j.o["role"]).v
               IN  decoded.v.ok
                      <=> PromptMessage_new_image(r, c.o["data"].s, c.o["mimeType"].s).ok

----------------------------------------------------------------------------
(* src/src/prompt.rs: the prompt builder *)

\* The types T a caller may give argument::<T>(), each with the title and
\* the type of its JSON schema.
SchemaTypes ==
    {[title |-> "String", type |-> "string"],
     [title |-> "int32", type |-> "integer"],
     [title |-> "Boolean", type |-> "boolean"]}

\* schema_for!(T).to_value()
schema_for(T) ==
    JObj(Fields({<<"title", JStr(T.title)>>, <<"type", JStr(T.type)>>}))

\* Prompt::builder(): arguments is #[builder(field)] and starts at None;
\* name is a required member, description an optional one.
Prompt_builder == [arguments |-> None, name |-> None, description |-> None]

\* PromptBuilder::argument with the new fragment put in front.
PromptBuilder_argument_Prepend(self, T) ==
    IF self.arguments.some
        THEN [self EXCEPT !.arguments = Some(<<schema_for(T)>> \o self.arguments.v)]
        ELSE [self EXCEPT !.arguments = Some(<<schema_for(T)>>)]

\* PromptBuilder::argument
PromptBuilder_argument(self, T) ==
    IF self.arguments.some
        THEN [self EXCEPT !.arguments = Some(Append(self.arguments.v, schema_for(T)))]
        ELSE [self EXCEPT !.arguments = Some(<<schema_for(T)>>)]

\* PromptBuilder::name, PromptBuilder::description (generated setters)
PromptBuilder_name(self, name) == [self EXCEPT !.name = Some(name)]

PromptBuilder_description(self, description) ==
    [self EXCEPT !.description = Some(description)]

\* PromptBuilder::build (generated): callable once name is set.
PromptBuilder_build(self) ==
    [arguments |-> self.arguments, name |-> self.name.v,
     description |-> self.description]

\* The most calls of argument() on one builder.
MaxArguments == 3

\* A call recorded in pcalls.
Call(fn, arg) == [fn |-> fn, arg |-> arg]

\* The arguments of the calls of argument() among cs, in the order made.
RECURSIVE ArgumentCalls(_)
ArgumentCalls(cs) ==
    IF cs = <<>> THEN <<>>
    ELSE IF Head(cs).fn = "argument"
        THEN <<Head(cs).arg>> \o ArgumentCalls(Tail(cs))
        ELSE ArgumentCalls(Tail(cs))

PromptBuilderNew ==
    /\ pb = None
    /\ prompt = None
    /\ pb' = Some(Prompt_builder)
    /\ UNCHANGED <<prompt, pcalls, imageVars, errorVars, wireVars, resourceVars, decodeVars>>

PromptBuilderArgument ==
    /\ pb.some
    /\ Len(ArgumentCalls(pcalls)) < MaxArguments
    /\ \E T \in SchemaTypes :
        /\ pb' = Some(PromptBuilder_argument(pb.v, T))
        /\ pcalls' = Append(pcalls, Call("argument", T))
    /\ UNCHANGED <<prompt, imageVars, errorVars, wireVars, resourceVars, decodeVars>>

\* The typestate of the generated builder lets name be set once.
PromptBuilderName ==
    /\ pb.some
    /\ ~pb.v.name.some
    /\ \E n \in {"greet", ""} :
        /\ pb' = Some(PromptBuilder_name(pb.v, n))
        /\ pcalls' = Append(pcalls, Call("name", n))
    /\ UNCHANGED <<prompt, imageVars, errorVars, wireVars, resourceVars, decodeVars>>

\* ... and description once.
PromptBuilderDescription ==
    /\ pb.some
    /\ ~pb.v.description.some
    /\ pb' = Some(PromptBuilder_description(pb.v, "Says hello"))
    /\ pcalls' = Append(pcalls, Call("description", "Says hello"))
    /\ UNCHANGED <<prompt, imageVars, errorVars, wireVars, resourceVars, decodeVars>>

\* build() is there once the required name is set.
PromptBuilderBuild ==
    /\ pb.some
    /\ pb.v.name.some
    /\ prompt' = Some(PromptBuilder_build(pb.v))
    /\ pb' = None
    /\ UNCHANGED <<pcalls, imageVars, errorVars, wireVars, resourceVars, decodeVars>>

\* The caller drops the prompt built and starts afresh.
PromptBuilderDiscard ==
    /\ prompt.some
    /\ prompt' = None
    /\ pcalls' = <<>>
    /\ UNCHANGED <<pb, imageVars, errorVars, wireVars, resourceVars, decodeVars>>

PromptNext ==
    \/ PromptBuilderNew
    \/ PromptBuilderArgument
    \/ PromptBuilderName
    \/ PromptBuilderDescription
    \/ PromptBuilderBuild
    \/ PromptBuilderDiscard

SpecPrompt == Init /\ [][PromptNext]_vars

----------------------------------------------------------------------------
(* Claims about the prompt builder *)

\* The schema fragments of a sequence of types.
Schemas(ts) == [i \in 1..Len(ts) |-> schema_for(ts[i])]

\* arguments is what n calls of argument() leave: None for none, else the
\* fragments of the calls in their order.
ArgumentsFollowCalls(arguments, cs) ==
    IF ArgumentCalls(cs) = <<>>
        THEN arguments = None
        ELSE /\ arguments.some
             /\ Len(arguments.v) = Len(ArgumentCalls(cs))
             /\ arguments.v = Schemas(ArgumentCalls(cs))

\* C13: after n calls of argument(), interleaved in any way with name and
\* description, the builder's and the built Prompt's arguments is None when
\* n = 0 and otherwise the n schema fragments of the calls in the order of
\* the calls; so each call adds one fragment at the end and leaves the
\* earlier ones in place.
C13_ArgumentsAppended ==
    /\ pb.some => ArgumentsFollowCalls(pb.v.arguments, pcalls)
    /\ prompt.some => ArgumentsFollowCalls(prompt.v.arguments, pcalls)

\* A Prompt was built after three calls of argument() with different types,
\* with name and description set in between.
C13_Witness ==
    /\ prompt.some
    /\ Len(ArgumentCalls(pcalls)) = 3
    /\ pcalls[1].fn = "argument"
    /\ pcalls[2].fn = "name"
    /\ pcalls[3].fn = "argument"
    /\ pcalls[3].arg # pcalls[1].arg
    /\ Len(pcalls) = 5

----------------------------------------------------------------------------
(* Claims about the two image entry points *)

\* What the last construction of a message returned.
MessageOutcome == IF result.ok THEN Ok(message.v) ELSE result

\* The error an image with bad data is refused with.
Base64Error == Err(InvalidParameters("Image data must be valid base64"))

\* C14: the two image entry points agree.  For every role r, data d and
\* MIME string m, new_image(r, d, m) returns what
\* builder().content(Image{d, m}) followed by role(r).build() returns: the
\* same message, or an error of the same kind with the same text; when d is
\* not base64 and m is not an image type either, both give the base64 error.
C14_EntryPointsAgree ==
    /\ op = "PromptMessage::new_image"
        => /\ MessageOutcome
                = PromptMessage_builder_image(args.role.v, args.data.v, args.mime_type.v)
           /\ (/\ ~B64Decode(args.data.v).ok
               /\ ~StartsWith(args.mime_type.v, "image/"))
                    => MessageOutcome = Base64Error
    /\ (op = "PromptMessageBuilder::content" /\ args.content.v.type = "image" /\ ~result.ok)
        => /\ \A r \in PromptMessageRole :
                result = PromptMessage_new_image(r, args.content.v.data,
                                                 args.content.v.mime_type)
           /\ (/\ ~B64Decode(args.content.v.data).ok
               /\ ~StartsWith(args.content.v.mime_type, "image/"))
                    => result = Base64Error
    /\ (/\ op = "PromptMessageBuilder::build"
        /\ args.content.some
        /\ args.content.v.type = "image")
        => MessageOutcome
             = PromptMessage_new_image(args.role.v, args.content.v.data,
                                       args.content.v.mime_type)

\* The message builder has just refused an image whose data is not base64
\* and whose MIME type is not an image type, with the base64 error that
\* new_image gives for them.
C14_Witness ==
    /\ op = "PromptMessageBuilder::content"
    /\ args.content.v.type = "image"
    /\ args.content.v.data = "AAA!"
    /\ args.content.v.mime_type = "text/plain"
    /\ result = Base64Error
    /\ result = PromptMessage_new_image("User", "AAA!", "text/plain")

----------------------------------------------------------------------------
(* Claims about Resource::scheme *)

\* C15: every Resource that Resource::builder() builds, after any sequence
\* of builder calls, one without uri(..) too, holds a uri that parses as a
\* URI with a scheme, and scheme() on it returns Ok with that scheme, never
\* ResourceError::InvalidUri.
C15_SchemeAlwaysOk ==
    /\ resource.some => Url_parse(resource.v.uri).ok
    /\ schemed.some
        => /\ schemed.v.ok
           /\ schemed.v.v = Url_parse(resource.v.uri).v.scheme
           /\ rcalls.uri.some => schemed.v.v = rcalls.uri.v.scheme

=============================================================================
